---------------------------- MODULE Spec2Model ----------------------------
(***************************************************************************)
(* State-machine model of pv::data::Snapshot / pv::data::DsoSnapshot       *)
(* (DSView/pv/data/snapshot.cpp, DSView/pv/data/dsosnapshot.cpp).          *)
(*                                                                         *)
(* The object's fields are the variables.  Every method is a pure operator *)
(* on a record S of the fields (Cur), translated statement by statement;   *)
(* an action installs the record the method returns.  Spec runs one call   *)
(* at a time; SpecConc runs a producer thread and a consumer thread that   *)
(* interleave at the granularity of the mutex.                             *)
(*                                                                         *)
(* Scaling: the envelope factor (256 in the source), the number of pyramid *)
(* levels and the leaf block size are scaled down so that small buffers    *)
(* span several pyramid entries, levels and blocks.                        *)
(***************************************************************************)
EXTENDS Integers, Sequences, FiniteSets, TLC

\* ------------------------------------------------------------------ bounds
EnvelopeScalePower == 1
ScaleStepCount == 2
MaxChunk == 5
NumVals == 2
BigTotal == 4
LeafBlockPower == 1
MaxChannels == 2
VrmsScalePower == 1

\* -------------------------------------------------------- program constants
EnvelopeDataUnit == 4096
HeaderSlack == 8
UnitBytes == 1
CtorTotal == 1
CtorChannels == 1

RECURSIVE Pow2(_)
Pow2(n) == IF n = 0 THEN 1 ELSE 2 * Pow2(n - 1)

EnvelopeScaleFactor == Pow2(EnvelopeScalePower)
LeafBlockSamples == Pow2(LeafBlockPower)
\* x & LeafMask, for LeafMask == ~(~0ULL << LeafBlockPower)
AndLeafMask(x) == x % Pow2(LeafBlockPower)
\* x >> p
Shr(x, p) == x \div Pow2(p)
Shl(x, p) == x * Pow2(p)
Min2(a, b) == IF a < b THEN a ELSE b
Max2(a, b) == IF a > b THEN a ELSE b

\* ------------------------------------------------------------------ inputs
Channels == 0 .. (MaxChannels - 1)
Levels == 0 .. (ScaleStepCount - 1)
Totals == {BigTotal}
\* std::map<int,bool> ch_enable, as the sequence of the flags of channels 0, 1
ChMaps == {<<TRUE>>, <<TRUE, TRUE>>}
Bytes == 0 .. (NumVals - 1)
\* sr_datafeed_dso: num_samples, samplerate_tog, and the bytes of data, which
\* are those of the ramp base, base+step, ... (mod NumVals)
Steps == {0, 1}
NoPayload == [num_samples |-> 0, base |-> 0, step |-> 0, samplerate_tog |-> FALSE]
PayloadByte(dso, j) == (dso.base + dso.step * j) % NumVals
\* the first n bytes of dso.data
PayloadBytes(dso, n) == [j \in 1 .. n |-> PayloadByte(dso, j - 1)]

\* --------------------------------------------------------------- envelope
\* An EnvelopeSample never written (malloc's memory)
Uninit == <<-1, -1>>
IsInit(e) == e[1] >= 0 /\ e[2] >= 0
FoldMin(a, b) == IF a < 0 \/ b < 0 THEN -1 ELSE Min2(a, b)
FoldMax(a, b) == IF a < 0 \/ b < 0 THEN -1 ELSE Max2(a, b)

\* struct Envelope {length, data_length, samples}; cap and vals are what
\* samples points to: the entries malloc'ed and the entries written so far
NullEnvelope == [samples |-> "null", cap |-> 0, length |-> 0, data_length |-> 0,
                 vals |-> <<>>]
ZeroedLevels == [i \in Channels |-> [l \in Levels |-> NullEnvelope]]

VARIABLES
    data,               \* _data: "null" or "alloc"
    dataSize,           \* bytes malloc'ed for _data
    buf,                \* the bytes of _data that hold samples: sample_count * channel_num
    capacity,           \* _capacity
    channel_num,        \* _channel_num
    sample_count,       \* _sample_count
    total_sample_count, \* _total_sample_count
    ring_sample_count,  \* _ring_sample_count
    memory_failed,      \* _memory_failed
    last_ended,         \* _last_ended
    have_data,          \* _have_data
    ch_enable,          \* _ch_enable
    instant,            \* _instant
    envelope_en,        \* _envelope_en
    envelope_done,      \* _envelope_done
    envelope_levels,    \* _envelope_levels[channel][level]
    fault,              \* the first undefined behaviour executed, or "none"
    crashed,            \* the process was killed by it
    leaked,             \* the last call lost the last pointer to an array it did not free
    last,               \* the last mutating call made
    mutex,              \* _mutex: "none", or the thread holding it
    prod,               \* the producer thread: position and locals
    cons                \* the consumer thread: position and locals

fields == <<data, dataSize, buf, capacity, channel_num, sample_count,
            total_sample_count, ring_sample_count, memory_failed, last_ended,
            have_data, ch_enable, instant, envelope_en, envelope_done,
            envelope_levels, fault, crashed, leaked>>
vars == <<fields, last, mutex, prod, cons>>

\* The object as a record
Cur ==
    [data |-> data, dataSize |-> dataSize, buf |-> buf, capacity |-> capacity,
     channel_num |-> channel_num, sample_count |-> sample_count,
     total_sample_count |-> total_sample_count,
     ring_sample_count |-> ring_sample_count, memory_failed |-> memory_failed,
     last_ended |-> last_ended, have_data |-> have_data, ch_enable |-> ch_enable,
     instant |-> instant, envelope_en |-> envelope_en,
     envelope_done |-> envelope_done, envelope_levels |-> envelope_levels,
     fault |-> fault, crashed |-> crashed, leaked |-> leaked]

Install(S) ==
    /\ data' = S.data
    /\ dataSize' = S.dataSize
    /\ buf' = S.buf
    /\ capacity' = S.capacity
    /\ channel_num' = S.channel_num
    /\ sample_count' = S.sample_count
    /\ total_sample_count' = S.total_sample_count
    /\ ring_sample_count' = S.ring_sample_count
    /\ memory_failed' = S.memory_failed
    /\ last_ended' = S.last_ended
    /\ have_data' = S.have_data
    /\ ch_enable' = S.ch_enable
    /\ instant' = S.instant
    /\ envelope_en' = S.envelope_en
    /\ envelope_done' = S.envelope_done
    /\ envelope_levels' = S.envelope_levels
    /\ fault' = S.fault
    /\ crashed' = S.crashed
    /\ leaked' = S.leaked

\* The object is S
Holds(S) ==
    /\ data = S.data
    /\ dataSize = S.dataSize
    /\ buf = S.buf
    /\ capacity = S.capacity
    /\ channel_num = S.channel_num
    /\ sample_count = S.sample_count
    /\ total_sample_count = S.total_sample_count
    /\ ring_sample_count = S.ring_sample_count
    /\ memory_failed = S.memory_failed
    /\ last_ended = S.last_ended
    /\ have_data = S.have_data
    /\ ch_enable = S.ch_enable
    /\ instant = S.instant
    /\ envelope_en = S.envelope_en
    /\ envelope_done = S.envelope_done
    /\ envelope_levels = S.envelope_levels
    /\ fault = S.fault
    /\ crashed = S.crashed
    /\ leaked = S.leaked

\* Undefined behaviour: the process either dies there (ub = "crash") or the
\* call runs on to its end (ub = "silent"). What the process does after that
\* is not modelled: no call is made on an object whose fault is not "none".
Fault(S, what, ub) ==
    [S EXCEPT !.fault = IF S.fault = "none" THEN what ELSE S.fault,
              !.crashed = (ub = "crash")]

\* ------------------------------------------------------------ Snapshot
\* Snapshot::Snapshot, DsoSnapshot::DsoSnapshot
Constructed ==
    [data |-> "null", dataSize |-> 0, buf |-> <<>>, capacity |-> 0,
     channel_num |-> CtorChannels, sample_count |-> 0,
     total_sample_count |-> CtorTotal, ring_sample_count |-> 0,
     memory_failed |-> FALSE, last_ended |-> TRUE, have_data |-> FALSE,
     ch_enable |-> <<>>, instant |-> FALSE, envelope_en |-> FALSE,
     envelope_done |-> FALSE, envelope_levels |-> ZeroedLevels,
     fault |-> "none", crashed |-> FALSE, leaked |-> FALSE]

\* Snapshot::free_data (_ch_index is not modelled: nothing reads it)
free_data(S) ==
    IF S.data # "null"
    THEN [S EXCEPT !.data = "null", !.dataSize = 0, !.buf = <<>>,
                   !.capacity = 0, !.sample_count = 0]
    ELSE S

\* Snapshot::ring_start
ring_start(S) ==
    IF S.sample_count < S.total_sample_count THEN 0 ELSE S.ring_sample_count

\* ring_end without the test of _ring_sample_count == 0 (line 103)
ring_end_cursor(S) ==
    IF S.sample_count = 0 THEN 0
    ELSE S.ring_sample_count - 1

\* Snapshot::ring_end
ring_end(S) ==
    IF S.sample_count = 0 THEN 0
    ELSE IF S.ring_sample_count = 0 THEN S.total_sample_count - 1
    ELSE S.ring_sample_count - 1

\* Snapshot::capture_ended
capture_ended(S) == [S EXCEPT !.last_ended = TRUE]

\* ---------------------------------------------------------- DsoSnapshot
\* DsoSnapshot::free_envelop: frees the arrays of the channels below
\* _channel_num, then zeroes the whole table
free_envelop(S) ==
    [S EXCEPT !.envelope_levels = ZeroedLevels,
              !.leaked = S.leaked \/
                  \E i \in Channels, l \in Levels :
                      /\ i >= S.channel_num
                      /\ S.envelope_levels[i][l].samples # "null"]

\* DsoSnapshot::init_all (buf holds the sample_count samples, so it empties)
init_all(S) ==
    [S EXCEPT !.sample_count = 0,
              !.buf = <<>>,
              !.ring_sample_count = 0,
              !.memory_failed = FALSE,
              !.last_ended = TRUE,
              !.envelope_done = FALSE,
              !.ch_enable = <<>>,
              !.envelope_levels =
                  [i \in Channels |-> [l \in Levels |->
                      IF i < S.channel_num
                      THEN [S.envelope_levels[i][l] EXCEPT !.length = 0,
                                                           !.data_length = 0]
                      ELSE S.envelope_levels[i][l]]]]

\* DsoSnapshot::clear
clear(S) == [init_all(free_envelop(free_data(S))) EXCEPT !.have_data = FALSE]

\* The bytes of channel i's level-0 entry k: the samples k*SCALE .. (k+1)*SCALE-1
\* of the channel, strided by channel_num (lines 286-300)
RECURSIVE ScanMin(_, _, _, _), ScanMax(_, _, _, _)
ScanMin(S, i, k, t) ==
    LET b == S.buf[(k * EnvelopeScaleFactor + t) * S.channel_num + i + 1]
    IN  IF t = EnvelopeScaleFactor - 1 THEN b
        ELSE Min2(b, ScanMin(S, i, k, t + 1))
ScanMax(S, i, k, t) ==
    LET b == S.buf[(k * EnvelopeScaleFactor + t) * S.channel_num + i + 1]
    IN  IF t = EnvelopeScaleFactor - 1 THEN b
        ELSE Max2(b, ScanMax(S, i, k, t + 1))
Level0Sample(S, i, k) == <<ScanMin(S, i, k, 0), ScanMax(S, i, k, 0)>>

\* Entry k of a level above: the fold of the entries k*SCALE .. (k+1)*SCALE-1
\* of the level below (lines 334-345)
RECURSIVE FoldLower(_, _, _)
FoldLower(lower, k, t) ==
    LET e == lower[k * EnvelopeScaleFactor + t + 1]
    IN  IF t = EnvelopeScaleFactor - 1 THEN e
        ELSE LET r == FoldLower(lower, k, t + 1)
             IN  <<FoldMin(e[1], r[1]), FoldMax(e[2], r[2])>>

\* The array vals with the entries prev .. len-1 written from new
WriteRange(vals, prev, len, new) ==
    IF prev >= len THEN vals
    ELSE [j \in 1 .. Max2(Len(vals), len) |->
            IF j - 1 >= prev /\ j - 1 < len THEN new[j - 1]
            ELSE IF j <= Len(vals) THEN vals[j]
            ELSE Uninit]

\* DsoSnapshot::reallocate_envelope
reallocate_envelope(e) ==
    LET new_data_length ==
            ((e.length + EnvelopeDataUnit - 1) \div EnvelopeDataUnit) * EnvelopeDataUnit
    IN  IF new_data_length > e.data_length
        THEN [e EXCEPT !.data_length = new_data_length]
        ELSE e

\* The resume cursor without the header test of lines 263-264 and 311-312:
\* the pass always resumes at the old length
PrevLength_resume(header, old_length, new_length) ==
    LET p == old_length
    IN  IF new_length = p THEN 0 ELSE p

\* The resume cursor of one level (lines 263-272, 311-323)
PrevLength(header, old_length, new_length) ==
    LET p == IF header THEN 0 ELSE old_length
    IN  IF new_length = p THEN 0 ELSE p

\* Level 0 of channel i (lines 259-302), for a non-zero new length
BuildLevel0(S, i, header) ==
    LET e0 == S.envelope_levels[i][0]
        len == S.sample_count \div EnvelopeScaleFactor
        prev == PrevLength(header, e0.length, len)
        f == [k \in prev .. (len - 1) |-> Level0Sample(S, i, k)]
    IN  reallocate_envelope([e0 EXCEPT !.length = len,
                                       !.vals = WriteRange(e0.vals, prev, len, f)])

\* The levels 1.. of channel i (lines 305-347): lv is the channel's row with
\* the levels below `level` built
RECURSIVE BuildUpper(_, _, _)
BuildUpper(lv, level, header) ==
    IF level >= ScaleStepCount THEN lv
    ELSE LET e == lv[level]
             el == lv[level - 1]
             len == el.length \div EnvelopeScaleFactor
             prev == PrevLength(header, e.length, len)
             f == [k \in prev .. (len - 1) |-> FoldLower(el.vals, k, 0)]
         IN  IF len = 0 THEN [lv EXCEPT ![level].length = 0]
             ELSE BuildUpper(
                    [lv EXCEPT ![level] =
                        reallocate_envelope(
                            [e EXCEPT !.length = len,
                                      !.vals = WriteRange(e.vals, prev, len, f)])],
                    level + 1, header)

\* Whether the pass that took S to T wrote past the entries malloc'ed for a
\* level, or through a null samples pointer: level l of channel i is written
\* when every level below it got a non-zero length and prev < length
BuildOverflows(S, T, header) ==
    \E i \in Channels, l \in Levels :
        /\ i < S.channel_num
        /\ S.sample_count \div EnvelopeScaleFactor > 0
        /\ \A m \in Levels : m < l => T.envelope_levels[i][m].length > 0
        /\ LET e == T.envelope_levels[i][l]
               prev == PrevLength(header, S.envelope_levels[i][l].length, e.length)
           IN  /\ prev < e.length
               /\ e.samples = "null" \/ e.length > e.cap

\* DsoSnapshot::append_payload_to_envelope_levels
RECURSIVE BuildChannels(_, _, _)
BuildChannels(S, i, header) ==
    IF i >= S.channel_num THEN [S EXCEPT !.envelope_done = TRUE]
    ELSE IF S.sample_count \div EnvelopeScaleFactor = 0
         THEN \* e0.length = 0; return
              [S EXCEPT !.envelope_levels[i][0].length = 0]
         ELSE LET row == [S.envelope_levels[i] EXCEPT ![0] = BuildLevel0(S, i, header)]
              IN  BuildChannels(
                      [S EXCEPT !.envelope_levels[i] = BuildUpper(row, 1, header)],
                      i + 1, header)

append_payload_to_envelope_levels(S, header, ub) ==
    LET T == BuildChannels(S, 0, header)
    IN  IF BuildOverflows(S, T, header) THEN Fault(T, "heap_overflow", ub) ELSE T

\* DsoSnapshot::append_data
append_data(S, dso, ub) ==
    IF S.instant
    THEN LET room == S.total_sample_count - S.sample_count
             over == S.sample_count + dso.num_samples > S.total_sample_count
             samples == IF over THEN room ELSE dso.num_samples
             nbytes == samples * S.channel_num
             offset == S.sample_count * S.channel_num
         IN  IF samples < 0
             THEN \* total - count wraps to about 2^64: memcpy runs off the heap
                  Fault(S, "heap_overflow", "crash")
             ELSE IF S.data = "null" /\ nbytes > 0
             THEN Fault(S, "null_write", "crash")
             ELSE LET T == [S EXCEPT !.buf = S.buf \o PayloadBytes(dso, nbytes),
                                     !.sample_count = S.sample_count + samples]
                  IN  IF nbytes > 0 /\ offset + nbytes > S.dataSize
                      THEN Fault(T, "heap_overflow", ub)
                      ELSE T
    ELSE LET nbytes == dso.num_samples * S.channel_num
         IN  IF S.data = "null" /\ nbytes > 0
             THEN Fault(S, "null_write", "crash")
             ELSE LET T == [S EXCEPT !.buf = PayloadBytes(dso, nbytes),
                                     !.sample_count = dso.num_samples]
                  IN  IF nbytes > S.dataSize
                      THEN Fault(T, "heap_overflow", ub)
                      ELSE T

\* append_payload without the test of line 164
append_payload_untested(S, dso, ub) ==
    LET A == append_data(S, dso, ub)
    IN  IF A.crashed THEN A
        ELSE LET B == IF A.envelope_en
                      THEN append_payload_to_envelope_levels(
                               A, dso.samplerate_tog, ub)
                      ELSE A
             IN  IF B.crashed THEN B ELSE [B EXCEPT !.have_data = TRUE]

\* DsoSnapshot::append_payload, without the lock
append_payload(S, dso, ub) ==
    IF S.channel_num > 0 /\ dso.num_samples # 0
    THEN LET A == append_data(S, dso, ub)
         IN  IF A.crashed THEN A
             ELSE LET B == IF A.envelope_en
                           THEN append_payload_to_envelope_levels(
                                    A, dso.samplerate_tog, ub)
                           ELSE A
                  IN  IF B.crashed THEN B ELSE [B EXCEPT !.have_data = TRUE]
    ELSE S

\* DsoSnapshot::enable_envelope, without the lock
enable_envelope(S, enable, ub) ==
    LET B == IF ~S.envelope_done /\ enable
             THEN append_payload_to_envelope_levels(S, TRUE, ub)
             ELSE S
    IN  IF B.crashed THEN B ELSE [B EXCEPT !.envelope_en = enable]

\* The number of channels a ch_enable map enables (lines 105-109)
RECURSIVE CountEnabled(_)
CountEnabled(m) ==
    IF m = <<>> THEN 0
    ELSE (IF Head(m) THEN 1 ELSE 0) + CountEnabled(Tail(m))

\* The entries malloc'ed for a level (lines 129-138)
RECURSIVE EnvelopCount(_, _)
EnvelopCount(total, level) ==
    LET before == IF level = 0 THEN total \div EnvelopeScaleFactor
                  ELSE EnvelopCount(total, level - 1) \div EnvelopeScaleFactor
    IN  ((before + EnvelopeDataUnit - 1) \div EnvelopeDataUnit) * EnvelopeDataUnit

\* Which malloc of first_payload returns NULL: NoFail, FailRaw (the raw buffer,
\* line 125) or 1 + i * ScaleStepCount + level (line 133)
NoFail == -1
FailRaw == 0
LevelAlloc(i, level) == 1 + i * ScaleStepCount + level
FailPoints == {NoFail, FailRaw} \cup {LevelAlloc(i, l) : i \in Channels, l \in Levels}

\* first_payload, lines 104-119
fp_config(S, total, chmap, inst) ==
    [S EXCEPT !.total_sample_count = total,
              !.channel_num = CountEnabled(chmap),
              !.instant = inst,
              !.ch_enable = chmap]

\* re_alloc || size != _capacity (lines 112-114, 122-123)
fp_must_alloc(S, total, chmap) ==
    \/ total # S.total_sample_count
    \/ CountEnabled(chmap) # S.channel_num
    \/ total * CountEnabled(chmap) + HeaderSlack # S.capacity

\* first_payload, lines 124-145, on the object fp_config left: the mallocs
\* before failAt succeed, the one at failAt returns NULL
fp_allocate(S, failAt) ==
    LET F == free_data(S)
    IN  IF failAt = FailRaw THEN F
        ELSE LET D == [F EXCEPT !.data = "alloc",
                                !.dataSize = S.total_sample_count * S.channel_num
                                             + HeaderSlack]
                 E == free_envelop(D)
             IN  [E EXCEPT !.envelope_levels =
                     [i \in Channels |-> [l \in Levels |->
                         IF /\ i < S.channel_num
                            /\ failAt = NoFail \/ LevelAlloc(i, l) < failAt
                         THEN [E.envelope_levels[i][l] EXCEPT
                                  !.samples = "alloc",
                                  !.cap = EnvelopCount(S.total_sample_count, l)]
                         ELSE E.envelope_levels[i][l]]]]

\* isOk after lines 121-146: a failed malloc of the raw buffer leaves it true
\* (line 144)
fp_isOk(failAt) == failAt = NoFail \/ failAt = FailRaw

\* first_payload, lines 149-150
fp_commit(S) ==
    [S EXCEPT !.capacity = S.total_sample_count * S.channel_num + HeaderSlack,
              !.memory_failed = FALSE]

\* first_payload, lines 148-157
fp_finish(S, isOk, dso, ub) ==
    IF isOk
    THEN LET A == append_payload(fp_commit(S), dso, ub)
         IN  IF A.crashed THEN A ELSE [A EXCEPT !.last_ended = FALSE]
    ELSE [free_envelop(free_data(S)) EXCEPT !.memory_failed = TRUE]

\* DsoSnapshot::first_payload
first_payload(S, dso, total, chmap, inst, failAt, ub) ==
    LET C == fp_config(S, total, chmap, inst)
    IN  IF fp_must_alloc(S, total, chmap)
        THEN fp_finish(fp_allocate(C, failAt), fp_isOk(failAt), dso, ub)
        ELSE fp_finish(C, TRUE, dso, ub)

\* floorf(logf(min_length) / LogEnvelopeScaleFactor) for min_length >= 1
RECURSIVE FloorLogScale(_)
FloorLogScale(x) ==
    IF x < EnvelopeScaleFactor THEN 0
    ELSE 1 + FloorLogScale(x \div EnvelopeScaleFactor)

\* get_envelope_section without the test of lines 234-235: the length is
\* end - start whatever the level holds
get_envelope_section_anyLength(S, start, end, min_length, probe_index) ==
    LET min_level == Max2(FloorLogScale(min_length) - 1, 0)
        scale_power == (min_level + 1) * EnvelopeScalePower
        s == Shr(start, scale_power)
        e == Shr(end, scale_power)
        env == S.envelope_levels[probe_index][min_level]
    IN  IF ~S.envelope_done
        THEN [length |-> 0, start |-> 0, scale |-> 0, samples |-> "unset",
              offset |-> 0, level |-> min_level, probe |-> probe_index]
        ELSE [length |-> e - s,
              start |-> Shl(s, scale_power),
              scale |-> Pow2(scale_power),
              samples |-> env.samples,
              offset |-> s,
              level |-> min_level, probe |-> probe_index]

\* DsoSnapshot::get_envelope_section, after its asserts: the EnvelopeSection s.
\* samples is what _envelope_levels[probe_index][min_level].samples was, and
\* offset the entries added to it
get_envelope_section(S, start, end, min_length, probe_index) ==
    LET min_level == Max2(FloorLogScale(min_length) - 1, 0)
        scale_power == (min_level + 1) * EnvelopeScalePower
        s == Shr(start, scale_power)
        e == Shr(end, scale_power)
        env == S.envelope_levels[probe_index][min_level]
    IN  IF ~S.envelope_done
        THEN [length |-> 0, start |-> 0, scale |-> 0, samples |-> "unset",
              offset |-> 0, level |-> min_level, probe |-> probe_index]
        ELSE [length |-> IF env.length = 0 THEN 0 ELSE e - s,
              start |-> Shl(s, scale_power),
              scale |-> Pow2(scale_power),
              samples |-> env.samples,
              offset |-> s,
              level |-> min_level, probe |-> probe_index]

\* DsoSnapshot::has_data, for the map of the keys 0 .. Len(ch_enable)-1
has_data(S, index) ==
    IF index < Len(S.ch_enable) THEN S.ch_enable[index + 1] ELSE FALSE

\* 1 << 8 in the source (line 42), scaled
VrmsScaleFactor == Pow2(VrmsScalePower)

RECURSIVE Pow(_, _)
Pow(x, k) == IF k = 0 THEN 1 ELSE x * Pow(x, k - 1)

\* *ptr for ptr = (uint8_t*)_data + pos: a byte of the samples stored, or,
\* past them, whatever the memory holds (stale)
ReadByte(S, pos, stale) == IF pos < Len(S.buf) THEN S.buf[pos + 1] ELSE stale

\* The inner loop of cal_vrms (lines 372-377): the sum of (zero_off - *ptr)^2
\* over the VrmsScaleFactor samples from src_ptr on, strided by _channel_num
RECURSIVE VrmsBlockSum(_, _, _, _, _)
VrmsBlockSum(S, zero_off, src, t, stale) ==
    IF t = VrmsScaleFactor THEN 0
    ELSE LET tmp == zero_off - ReadByte(S, src + t * S.channel_num, stale)
         IN  tmp * tmp + VrmsBlockSum(S, zero_off, src, t + 1, stale)

\* The outer loop of cal_vrms (lines 365-380) from src_ptr on, block b (from
\* 1): `vrms` is carried from block to block and never reset, so with
\* vrms = acc / n^(b-1) on entry, the block leaves
\* vrms = vrms_pre + (vrms + sum) / n = (acc * (n + 1) + sum * n^(b-1)) / n^b
RECURSIVE VrmsLoop(_, _, _, _, _, _)
VrmsLoop(S, zero_off, src, b, acc, stale) ==
    LET n == S.sample_count
    IN  IF src >= n * S.channel_num
        THEN [num |-> acc, pow |-> b - 1]
        ELSE VrmsLoop(S, zero_off, src + VrmsScaleFactor * S.channel_num, b + 1,
                      acc * (n + 1)
                        + VrmsBlockSum(S, zero_off, src, 0, stale) * Pow(n, b - 1),
                      stale)

\* DsoSnapshot::cal_vrms before its pow(vrms, 0.5): vrms is num / n^pow.
\* past_samples: the loops read a byte past the samples stored; past_buffer:
\* past the raw buffer
cal_vrms(S, zero_off, index, stale) ==
    LET n == S.sample_count
        first == index % S.channel_num
        stop == n * S.channel_num
        nblocks == IF first >= stop THEN 0
                   ELSE (stop - first + VrmsScaleFactor * S.channel_num - 1)
                            \div (VrmsScaleFactor * S.channel_num)
        last_read == first + (nblocks * VrmsScaleFactor - 1) * S.channel_num
        r == VrmsLoop(S, zero_off, first, 1, 0, stale)
    IN  [num |-> r.num, pow |-> r.pow, n |-> n, zero_off |-> zero_off,
         index |-> index, blocks |-> nblocks,
         past_samples |-> nblocks > 0 /\ last_read >= stop,
         past_buffer |-> nblocks > 0 /\ last_read >= S.dataSize]

\* The inner loop of cal_vmean (lines 406-410): the sum of *ptr over the
\* VrmsScaleFactor samples from src_ptr on, strided by _channel_num
RECURSIVE VmeanBlockSum(_, _, _, _)
VmeanBlockSum(S, src, t, stale) ==
    IF t = VrmsScaleFactor THEN 0
    ELSE ReadByte(S, src + t * S.channel_num, stale)
             + VmeanBlockSum(S, src, t + 1, stale)

\* The outer loop of cal_vmean (lines 399-414), `vmean` carried from block to
\* block as `vrms` is in cal_vrms
RECURSIVE VmeanLoop(_, _, _, _, _)
VmeanLoop(S, src, b, acc, stale) ==
    LET n == S.sample_count
    IN  IF src >= n * S.channel_num
        THEN [num |-> acc, pow |-> b - 1]
        ELSE VmeanLoop(S, src + VrmsScaleFactor * S.channel_num, b + 1,
                       acc * (n + 1)
                         + VmeanBlockSum(S, src, 0, stale) * Pow(n, b - 1),
                       stale)

\* DsoSnapshot::cal_vmean: the value returned is num / n^pow; blocks is the
\* number of turns of the outer loop, each of which divides by
\* get_sample_count()
cal_vmean(S, index, stale) ==
    LET n == S.sample_count
        first == index % S.channel_num
        stop == n * S.channel_num
        nblocks == IF first >= stop THEN 0
                   ELSE (stop - first + VrmsScaleFactor * S.channel_num - 1)
                            \div (VrmsScaleFactor * S.channel_num)
        last_read == first + (nblocks * VrmsScaleFactor - 1) * S.channel_num
        r == VmeanLoop(S, first, 1, 0, stale)
    IN  [num |-> r.num, pow |-> r.pow, n |-> n, index |-> index,
         blocks |-> nblocks,
         past_samples |-> nblocks > 0 /\ last_read >= stop,
         past_buffer |-> nblocks > 0 /\ last_read >= S.dataSize]

\* DsoSnapshot::get_block_num
get_block_num(S) ==
    LET size == S.sample_count * UnitBytes * S.channel_num
    IN  Shr(size, LeafBlockPower) + (IF AndLeafMask(size) # 0 THEN 1 ELSE 0)

\* get_block_size without the test of lines 442-443: the last block is the
\* remainder even when it is 0
get_block_size_remainder(S, block_index) ==
    IF block_index < get_block_num(S) - 1
    THEN LeafBlockSamples
    ELSE LET size == S.sample_count * UnitBytes * S.channel_num
         IN  size % LeafBlockSamples

\* DsoSnapshot::get_block_size, after its assert
get_block_size(S, block_index) ==
    IF block_index < get_block_num(S) - 1
    THEN LeafBlockSamples
    ELSE LET size == S.sample_count * UnitBytes * S.channel_num
         IN  IF size % LeafBlockSamples = 0 THEN LeafBlockSamples
             ELSE size % LeafBlockSamples

\* ------------------------------------------------------------ the calls
\* The last mutating call: its name and arguments (fail: the malloc that
\* returned NULL, "none", "raw" or "level"), and the pyramid pass it ran
\* (built: "none", "incr" or "header")
FailKind(failAt) ==
    IF failAt = NoFail THEN "none" ELSE IF failAt = FailRaw THEN "raw" ELSE "level"
NoCall == [op |-> "none", dso |-> NoPayload, fail |-> "none", built |-> "none",
           arg |-> FALSE]
Call(op) == [NoCall EXCEPT !.op = op]

\* The pyramid pass append_payload runs on S for dso (lines 164-169)
BuiltBy(S, dso) ==
    IF S.channel_num > 0 /\ dso.num_samples # 0 /\ S.envelope_en
    THEN IF dso.samplerate_tog THEN "header" ELSE "incr"
    ELSE "none"

\* The payloads a call on S may get: one of no samples has no bytes to tell
\* apart, and samplerate_tog is read only while envelope generation is enabled
PayloadInputs(S, lens, bases, steps) ==
    {d \in [num_samples : lens, base : bases, step : steps,
            samplerate_tog : BOOLEAN] :
        /\ d.num_samples = 0 => d.base = 0 /\ d.step = 0
        /\ d.samplerate_tog => S.envelope_en}

\* What a call makes of the object: the call run to its end, and, when it
\* executes undefined behaviour, also the process killed there
Outcomes(silent, crash) ==
    IF silent.fault = "none" THEN {silent} ELSE {silent, crash}

\* The object as a mutating call finds it
Entry == [Cur EXCEPT !.leaked = FALSE]

IdleThread == [pc |-> "idle"]
Idle == prod = IdleThread /\ cons = IdleThread /\ mutex = "none"
threads == <<mutex, prod, cons>>

Init ==
    /\ Holds(Constructed)
    /\ last = NoCall
    /\ mutex = "none"
    /\ prod = IdleThread
    /\ cons = IdleThread

\* The mallocs a setup of S may see fail
FailInputs(S, total, chmap) ==
    IF fp_must_alloc(S, total, chmap)
    THEN {f \in FailPoints : f < LevelAlloc(CountEnabled(chmap), 0)}
    ELSE {NoFail}

\* The session's setup call, for payloads of lens samples whose bytes are the
\* ramps bases x steps, with the malloc that fails among fails. A setup whose
\* pyramid malloc fails never reads its payload.
FirstPayloadOf(lens, bases, steps, totals, fails) ==
    /\ Idle /\ fault = "none"
    /\ \E total \in totals, chmap \in ChMaps, inst \in BOOLEAN :
         \E failAt \in FailInputs(Entry, total, chmap) \cap fails :
           \E dso \in IF fp_isOk(failAt) THEN PayloadInputs(Entry, lens, bases,
                                                                steps)
                      ELSE {NoPayload} :
             \E T \in Outcomes(first_payload(Entry, dso, total, chmap, inst,
                                          failAt, "silent"),
                            first_payload(Entry, dso, total, chmap, inst,
                                          failAt, "crash")) :
               /\ Install(T)
               /\ last' = [Call("first_payload") EXCEPT
                             !.dso = dso, !.fail = FailKind(failAt),
                             !.built = IF fp_isOk(failAt)
                                       THEN BuiltBy(fp_config(Entry, total, chmap,
                                                              inst), dso)
                                       ELSE "none"]
    /\ UNCHANGED threads

\* The session appends only to a snapshot it has set up and not ended
\* (_last_ended is false)
AppendPayloadOf(lens, bases, steps) ==
    /\ Idle /\ fault = "none"
    /\ ~last_ended
    /\ \E dso \in PayloadInputs(Entry, lens, bases, steps) :
         \E T \in Outcomes(append_payload(Entry, dso, "silent"),
                          append_payload(Entry, dso, "crash")) :
           /\ Install(T)
           /\ last' = [Call("append_payload") EXCEPT
                         !.dso = dso, !.built = BuiltBy(Entry, dso)]
    /\ UNCHANGED threads

\* Spec: every call, on payloads of up to MaxChunk samples whose bytes are
\* all 0
FirstPayload == FirstPayloadOf(0 .. MaxChunk, {0}, {0}, Totals, FailPoints)
AppendPayload == AppendPayloadOf(0 .. MaxChunk, {0}, {0})

EnableEnvelope ==
    /\ Idle /\ fault = "none"
    /\ \E enable \in BOOLEAN :
         \E T \in Outcomes(enable_envelope(Entry, enable, "silent"),
                          enable_envelope(Entry, enable, "crash")) :
           /\ Install(T)
           /\ last' = [Call("enable_envelope") EXCEPT
                         !.arg = enable,
                         !.built = IF ~envelope_done /\ enable THEN "header"
                                   ELSE "none"]
    /\ UNCHANGED threads

\* DsoSnapshot::init
InitCall ==
    /\ Idle /\ fault = "none"
    /\ Install(init_all(Entry))
    /\ last' = Call("init")
    /\ UNCHANGED threads

Clear ==
    /\ Idle /\ fault = "none"
    /\ Install(clear(Entry))
    /\ last' = Call("clear")
    /\ UNCHANGED threads

CaptureEnded ==
    /\ Idle /\ fault = "none"
    /\ Install(capture_ended(Entry))
    /\ last' = Call("capture_ended")
    /\ UNCHANGED threads

\* The consumer's queries: the consumer holds what the call returned until it
\* has used it (QueryDone), and the session makes no call meanwhile.
\* min_length is SCALE (level 0), SCALE^2 (level 1), ...; the asserts of lines
\* 216-218 are the caller's obligations.
MinLengths == {Pow2(EnvelopeScalePower * (l + 1)) : l \in Levels}
GetEnvelopeSection ==
    /\ Idle /\ fault = "none"
    /\ \E start \in 0 .. sample_count, min_length \in MinLengths,
          probe_index \in Channels :
         \E end \in start .. sample_count :
           cons' = [pc |-> "section", start |-> start, end |-> end,
                    es |-> get_envelope_section(Cur, start, end, min_length,
                                                probe_index)]
    /\ UNCHANGED <<fields, last, mutex, prod>>

GetBlocks ==
    /\ Idle /\ fault = "none"
    /\ cons' = [pc |-> "blocks",
                blocks |-> [b \in 1 .. get_block_num(Cur) |->
                               get_block_size(Cur, b - 1)]]
    /\ UNCHANGED <<fields, last, mutex, prod>>

\* The mean of a channel
CalVmean ==
    /\ Idle /\ fault = "none"
    /\ \E index \in 0 .. (channel_num - 1), stale \in Bytes :
         cons' = [pc |-> "mean", mean |-> cal_vmean(Cur, index, stale)]
    /\ UNCHANGED <<fields, last, mutex, prod>>

\* Snapshot::get_ring_start and Snapshot::get_ring_end, each under the lock
GetRing ==
    /\ Idle /\ fault = "none"
    /\ cons' = [pc |-> "ring", ring_start |-> ring_start(Cur),
                ring_end |-> ring_end(Cur)]
    /\ UNCHANGED <<fields, last, mutex, prod>>

\* The statistics of a channel, for a zero offset that is a sample value
CalVrms ==
    /\ Idle /\ fault = "none"
    /\ \E zero_off \in Bytes, index \in 0 .. (channel_num - 1), stale \in Bytes :
         cons' = [pc |-> "rms", rms |-> cal_vrms(Cur, zero_off, index, stale)]
    /\ UNCHANGED <<fields, last, mutex, prod>>

QueryDone ==
    /\ cons.pc \in {"section", "blocks", "rms", "mean", "ring"}
    /\ prod = IdleThread /\ mutex = "none"
    /\ cons' = IdleThread
    /\ UNCHANGED <<fields, last, mutex, prod>>

Next ==
    \/ FirstPayload
    \/ AppendPayload
    \/ EnableEnvelope
    \/ InitCall
    \/ Clear
    \/ CaptureEnded
    \/ GetEnvelopeSection
    \/ GetBlocks
    \/ GetRing
    \/ QueryDone

Spec == Init /\ [][Next]_vars

\* SpecData: the calls that store samples, on payloads whose bytes differ, for
\* a capacity of CtorTotal or BigTotal samples. OverChunk samples are more
\* bytes than the raw buffer of a CtorTotal-sample snapshot has (line 122).
OverChunk == CtorTotal + HeaderSlack + 1
DataLens == {0, 2, OverChunk}
FirstPayloadData ==
    FirstPayloadOf(DataLens, Bytes, Steps, {CtorTotal, BigTotal}, FailPoints)
AppendPayloadData == AppendPayloadOf(DataLens, Bytes, Steps)

NextData ==
    \/ FirstPayloadData
    \/ AppendPayloadData
    \/ CaptureEnded
    \/ CalVrms
    \/ CalVmean
    \/ QueryDone

SpecData == Init /\ [][NextData]_vars

\* SpecEnv: the calls that build the pyramid, on payloads whose bytes are all
\* 0 or the ramp 0, 1, 2, ..., for a capacity of BigTotal samples, every
\* malloc succeeding
EnvLens == {0, EnvelopeScaleFactor, BigTotal}
FirstPayloadEnv == FirstPayloadOf(EnvLens, {0}, Steps, {BigTotal}, {NoFail})
AppendPayloadEnv == AppendPayloadOf(EnvLens, {0}, Steps)

NextEnv ==
    \/ FirstPayloadEnv
    \/ AppendPayloadEnv
    \/ EnableEnvelope

SpecEnv == Init /\ [][NextEnv]_vars

\* ------------------------------------------------------- the two threads
\* SpecConc: the acquisition thread (prod) and one consumer thread (cons), each
\* call taken apart at its lock_guard and at its reads and writes outside it.
\* A thread is at pc inside the call op, with the call's arguments and locals.
ConcLens == {0, BigTotal}

\* first_payload, lines 104-119, which take no lock
P_FirstPayloadConfig ==
    /\ prod = IdleThread /\ fault = "none"
    /\ \E chmap \in ChMaps, inst \in BOOLEAN :
         \E dso \in PayloadInputs(Entry, ConcLens, {0}, {0}) :
           /\ Install(fp_config(Entry, BigTotal, chmap, inst))
           /\ prod' = [pc |-> "fp_alloc", op |-> "first_payload", dso |-> dso,
                       arg |-> fp_must_alloc(Entry, BigTotal, chmap)]
    /\ UNCHANGED <<last, mutex, cons>>

\* first_payload, lines 121-150, which take no lock; every malloc succeeds
P_FirstPayloadAllocate ==
    /\ prod.pc = "fp_alloc" /\ fault = "none"
    /\ Install(fp_commit(IF prod.arg THEN fp_allocate(Cur, NoFail) ELSE Cur))
    /\ prod' = [prod EXCEPT !.pc = "lock"]
    /\ UNCHANGED <<last, mutex, cons>>

\* The session calls append_payload, clear or enable_envelope: the call
\* starts at its lock_guard
P_Call ==
    /\ prod = IdleThread /\ fault = "none"
    /\ \/ /\ ~last_ended
          /\ \E dso \in PayloadInputs(Cur, ConcLens, {0}, {0}) :
               prod' = [pc |-> "lock", op |-> "append_payload",
                        dso |-> dso, arg |-> FALSE]
       \/ prod' = [pc |-> "lock", op |-> "clear", dso |-> NoPayload,
                   arg |-> FALSE]
       \/ \E enable \in BOOLEAN :
            prod' = [pc |-> "lock", op |-> "enable_envelope",
                     dso |-> NoPayload, arg |-> enable]
    /\ UNCHANGED <<fields, last, mutex, cons>>

\* The lock_guard of append_payload (line 162), called by the session or by
\* first_payload (line 151), of clear (line 94) and of enable_envelope
\* (line 191): std::mutex is not recursive, the thread waits until no thread
\* holds it
P_Lock ==
    /\ prod.pc = "lock" /\ mutex = "none" /\ fault = "none"
    /\ prod' = [prod EXCEPT !.pc = "body"]
    /\ mutex' = "prod"
    /\ UNCHANGED <<fields, last, cons>>

\* What the producer's call does while it holds the lock
P_Body ==
    /\ prod.pc = "body" /\ mutex = "prod" /\ fault = "none"
    /\ \E ub \in {"silent", "crash"} :
         LET T == CASE prod.op = "clear" -> clear(Entry)
                    [] prod.op = "enable_envelope" ->
                           enable_envelope(Entry, prod.arg, ub)
                    [] prod.op = "append_payload" ->
                           append_payload(Entry, prod.dso, ub)
                    [] OTHER -> append_payload(Cur, prod.dso, ub)
         IN  Install(T)
    /\ prod' = [prod EXCEPT !.pc = "unlock"]
    /\ UNCHANGED <<last, mutex, cons>>

\* The lock_guard's destructor
P_Unlock ==
    /\ prod.pc = "unlock" /\ mutex = "prod" /\ fault = "none"
    /\ mutex' = "none"
    /\ prod' = IF prod.op = "first_payload" THEN [prod EXCEPT !.pc = "fp_tail"]
               ELSE IdleThread
    /\ UNCHANGED <<fields, last, cons>>

\* first_payload, line 152, which takes no lock
P_FirstPayloadTail ==
    /\ prod.pc = "fp_tail" /\ fault = "none"
    /\ Install([Cur EXCEPT !.last_ended = FALSE])
    /\ prod' = IdleThread
    /\ UNCHANGED <<last, mutex, cons>>

\* The calls of a consumer thread
ConsumerOps == {"get_sample_count", "get_ring_start", "get_ring_end",
                "get_samples", "get_envelope_section", "cal_vrms", "cal_vmean"}

\* A consumer calls one of them: every one starts at a lock_guard, its own or
\* that of the get_sample_count it calls first
C_Call ==
    /\ cons = IdleThread /\ fault = "none"
    /\ \E op \in ConsumerOps : cons' = [pc |-> "lock", op |-> op]
    /\ UNCHANGED <<fields, last, mutex, prod>>

\* The lock_guard of get_sample_count (snapshot.cpp line 75), called by the
\* consumer, by the assert of get_envelope_section (line 216) or by cal_vrms
\* and cal_vmean (lines 364, 398); of get_ring_start and get_ring_end
\* (snapshot.cpp lines 81, 87); of get_samples (line 200)
C_Lock ==
    /\ cons.pc = "lock" /\ mutex = "none" /\ fault = "none"
    /\ cons' = [cons EXCEPT !.pc = IF cons.op = "get_samples" THEN "gs_body"
                                   ELSE "count"]
    /\ mutex' = "cons"
    /\ UNCHANGED <<fields, last, prod>>

\* get_sample_count returns _sample_count and releases the lock. The section
\* asked for is [0, count) of channel 0, which the asserts of lines 216-218
\* allow.
C_ReadCount ==
    /\ cons.pc = "count" /\ mutex = "cons" /\ fault = "none"
    /\ mutex' = "none"
    /\ \/ /\ cons.op = "get_sample_count"
          /\ cons' = [pc |-> "size", n |-> sample_count]
       \/ /\ cons.op = "get_envelope_section"
          /\ \E min_length \in MinLengths :
               cons' = [pc |-> "es_done", end |-> sample_count,
                        min_length |-> min_length]
       \/ /\ cons.op \in {"cal_vrms", "cal_vmean"}
          /\ cons' = [pc |-> "vrms_ptr", n |-> sample_count]
       \/ /\ cons.op = "get_ring_start"
          /\ cons' = [pc |-> "ring", ring_start |-> ring_start(Cur)]
       \/ /\ cons.op = "get_ring_end"
          /\ cons' = [pc |-> "ring", ring_end |-> ring_end(Cur)]
    /\ UNCHANGED <<fields, last, prod>>

\* Snapshot::sample_count(), which the asserts of get_samples call (lines
\* 204, 206) while get_samples holds the lock: the accessor of _sample_count
\* that takes no lock, as ring_start() is to get_ring_start()
sample_count_nolock(S) == S.sample_count

\* get_samples whose asserts would call the locked get_sample_count() while
\* get_samples holds the lock
C_GetSamples_relock ==
    /\ cons.pc = "gs_body" /\ mutex = "cons" /\ fault = "none"
    /\ cons' = [pc |-> "lock", op |-> "get_sample_count"]
    /\ UNCHANGED <<fields, last, mutex, prod>>

\* get_samples, lines 201-210, under its lock_guard: the asserts read
\* sample_count() and the pointer into the raw buffer is returned; the
\* lock_guard's destructor follows
C_GetSamples ==
    /\ cons.pc = "gs_body" /\ mutex = "cons" /\ fault = "none"
    /\ cons' = [pc |-> "samples", ptr |-> data, n |-> sample_count_nolock(Cur)]
    /\ mutex' = "none"
    /\ UNCHANGED <<fields, last, prod>>

\* get_envelope_section, lines 220-223, which take no lock
C_SectionDone ==
    /\ cons.pc = "es_done" /\ fault = "none"
    /\ cons' = IF ~envelope_done
               THEN [pc |-> "section",
                     es |-> get_envelope_section(Cur, 0, cons.end,
                                                 cons.min_length, 0)]
               ELSE [cons EXCEPT !.pc = "es_length"]
    /\ UNCHANGED <<fields, last, mutex, prod>>

\* get_envelope_section, lines 225-236, which take no lock: _envelope_done
\* has been read already
C_SectionLength ==
    /\ cons.pc = "es_length" /\ fault = "none"
    /\ cons' = [pc |-> "es_samples", end |-> cons.end,
                min_length |-> cons.min_length,
                es |-> get_envelope_section([Cur EXCEPT !.envelope_done = TRUE],
                                            0, cons.end, cons.min_length, 0)]
    /\ UNCHANGED <<fields, last, mutex, prod>>

\* get_envelope_section, line 240, which takes no lock
C_SectionSamples ==
    /\ cons.pc = "es_samples" /\ fault = "none"
    /\ cons' = [pc |-> "section",
                es |-> [cons.es EXCEPT !.samples =
                           get_envelope_section(
                               [Cur EXCEPT !.envelope_done = TRUE],
                               0, cons.end, cons.min_length, 0).samples]]
    /\ UNCHANGED <<fields, last, mutex, prod>>

\* cal_vrms, lines 363-364, which take no lock: stop_src_ptr from _data, the
\* count get_sample_count returned and _channel_num
C_VrmsBounds ==
    /\ cons.pc = "vrms_ptr" /\ fault = "none"
    /\ cons' = [pc |-> "vrms_scan", ptr |-> data,
                stop |-> cons.n * channel_num]
    /\ UNCHANGED <<fields, last, mutex, prod>>

\* cal_vrms, lines 365-381, which take no lock: the loop reads the bytes up
\* to stop_src_ptr. valid: every byte read is one of the raw buffer (the
\* pointer is not null, the buffer it pointed to has not been freed since and
\* has stop bytes).
C_VrmsScan ==
    /\ cons.pc = "vrms_scan" /\ fault = "none"
    /\ cons' = [pc |-> IF cons.stop = 0 THEN "vrms" ELSE "vrms_div",
                valid |-> \/ cons.stop = 0
                          \/ /\ cons.ptr = "alloc" /\ data = "alloc"
                             /\ cons.stop <= dataSize]
    /\ UNCHANGED <<fields, last, mutex, prod>>

\* cal_vrms line 379, cal_vmean line 412: each turn of the loop calls
\* get_sample_count() for the divisor, which takes the lock again
C_VrmsRelock ==
    /\ cons.pc = "vrms_div" /\ mutex = "none" /\ fault = "none"
    /\ cons' = [cons EXCEPT !.pc = "vrms_count"]
    /\ mutex' = "cons"
    /\ UNCHANGED <<fields, last, prod>>

\* get_sample_count returns the divisor and releases the lock
C_VrmsDivide ==
    /\ cons.pc = "vrms_count" /\ mutex = "cons" /\ fault = "none"
    /\ cons' = [pc |-> "vrms", valid |-> cons.valid]
    /\ mutex' = "none"
    /\ UNCHANGED <<fields, last, prod>>

\* Where a consumer is when its call has returned
Returned == {"size", "section", "vrms", "ring", "samples"}

\* The consumer has used what the call returned
C_Return ==
    /\ cons.pc \in Returned
    /\ cons' = IdleThread
    /\ UNCHANGED <<fields, last, mutex, prod>>

NextConc ==
    \/ P_FirstPayloadConfig
    \/ P_FirstPayloadAllocate
    \/ P_Call
    \/ P_Lock
    \/ P_Body
    \/ P_Unlock
    \/ P_FirstPayloadTail
    \/ C_Call
    \/ C_Lock
    \/ C_ReadCount
    \/ C_GetSamples
    \/ C_SectionDone
    \/ C_SectionLength
    \/ C_SectionSamples
    \/ C_VrmsBounds
    \/ C_VrmsScan
    \/ C_VrmsRelock
    \/ C_VrmsDivide
    \/ C_Return

SpecConc == Init /\ [][NextConc]_vars

\* SpecConcFair: a thread that is inside a call keeps running, and a thread
\* waiting at a lock_guard gets the mutex if it is free again and again. New
\* calls need not be made.
\* What the steps P_FirstPayloadAllocate, P_Lock, P_Body, P_Unlock and
\* P_FirstPayloadTail do to the position of the acquisition thread
P_Step ==
    /\ fault = "none"
    /\ \/ prod.pc = "fp_alloc" /\ prod' = [prod EXCEPT !.pc = "lock"]
       \/ /\ prod.pc = "lock" /\ mutex = "none"
          /\ prod' = [prod EXCEPT !.pc = "body"]
       \/ /\ prod.pc = "body" /\ mutex = "prod"
          /\ prod' = [prod EXCEPT !.pc = "unlock"]
       \/ /\ prod.pc = "unlock" /\ mutex = "prod"
          /\ prod' = IF prod.op = "first_payload"
                     THEN [prod EXCEPT !.pc = "fp_tail"]
                     ELSE IdleThread
       \/ prod.pc = "fp_tail" /\ prod' = IdleThread
\* The steps of a consumer inside a call
C_Step ==
    \/ C_Lock
    \/ C_ReadCount
    \/ C_GetSamples
    \/ C_SectionDone
    \/ C_SectionLength
    \/ C_SectionSamples
    \/ C_VrmsBounds
    \/ C_VrmsScan
    \/ C_VrmsRelock
    \/ C_VrmsDivide
SpecConcFair == SpecConc /\ SF_prod(P_Step) /\ SF_cons(C_Step)

\* ------------------------------------------------------------ properties
ActiveChannels == {i \in Channels : i < channel_num}
Length(i, l) == envelope_levels[i][l].length

\* C1. Pyramid length law: after a full build (a pass with header = true) every
\* active channel has level[0].length = floor(sample_count / SCALE) and
\* level[L].length = floor(level[L-1].length / SCALE) for every L >= 1.
C1_PyramidLengthLaw ==
    (last.built = "header" /\ fault = "none") =>
        \A i \in ActiveChannels :
            /\ Length(i, 0) = sample_count \div EnvelopeScaleFactor
            /\ \A l \in Levels \ {0} :
                   Length(i, l) = Length(i, l - 1) \div EnvelopeScaleFactor

\* No level of the pyramid table points to an array
NoLevelArray ==
    \A i \in Channels, l \in Levels : envelope_levels[i][l].samples = "null"

\* C2. All-or-nothing setup: when the raw buffer is malloc'ed and one malloc of
\* a pyramid level fails, first_payload leaves size() = 0, memory_failed set,
\* no raw buffer, no level array still allocated (none in the table, none that
\* the call dropped without freeing), and the first payload not ingested.
C2_AllOrNothingSetup ==
    (last.op = "first_payload" /\ last.fail = "level") =>
        /\ fault = "none"
        /\ sample_count = 0
        /\ memory_failed
        /\ data = "null" /\ capacity = 0
        /\ NoLevelArray
        /\ ~leaked
        /\ buf = <<>>

\* C3. A failed malloc of the raw buffer is absorbed: first_payload sets
\* memory_failed, leaves no raw buffer and sample_count = 0, and does not run
\* the append path, so nothing is written through the null pointer.
C3_RawFailureAbsorbed ==
    (last.op = "first_payload" /\ last.fail = "raw") =>
        /\ memory_failed
        /\ data = "null"
        /\ sample_count = 0
        /\ fault = "none"

\* C4. Append-growing truncation: in streaming mode every append_payload
\* writes its chunk at sample_count, cut to total_sample_count - sample_count
\* samples, never at a sample index >= total_sample_count; sample_count never
\* decreases and never exceeds total_sample_count.
C4_AppendGrowingTruncation ==
    [][(last'.op = "append_payload" /\ instant /\ last'.dso.num_samples > 0) =>
          /\ fault' = "none"
          /\ sample_count' =
                 Min2(sample_count + last'.dso.num_samples, total_sample_count)
          /\ sample_count' >= sample_count
          /\ sample_count' <= total_sample_count
          /\ buf' = buf \o PayloadBytes(last'.dso,
                                        (sample_count' - sample_count) * channel_num)
      ]_vars

\* C5. Replace-on-arrival overwrite: in non-streaming mode an append_payload
\* of m > 0 samples that returns leaves sample_count = m and the first
\* m * channel_num bytes of the raw buffer equal to the chunk's, whatever was
\* stored before, the stored bytes lying inside the raw buffer.
C5_ReplaceOverwrite ==
    LET m == last.dso.num_samples
    IN  (last.op = "append_payload" /\ ~instant /\ m > 0 /\ ~crashed) =>
            /\ sample_count = m
            /\ buf = PayloadBytes(last.dso, m * channel_num)
            /\ m * channel_num <= dataSize
            /\ fault = "none"

\* C6. Fill-count invariant: 0 <= sample_count <= total_sample_count in every
\* reachable state, and no append writes past the total_sample_count *
\* channel_num bytes the raw buffer was sized for.
C6_FillCountInvariant ==
    /\ 0 <= sample_count
    /\ sample_count <= total_sample_count
    /\ Len(buf) <= total_sample_count * channel_num
    /\ fault = "none"

\* C7. Envelope-section emptiness: get_envelope_section returns length 0 when
\* no payload has been appended, when _envelope_done is false, right after
\* clear() or init(), and when the selected level has length 0; it never
\* returns length > 0 with a null level array; and _envelope_done only becomes
\* true in a call that finds envelope generation enabled or enables it.
C7_SectionEmptiness ==
    /\ [](cons.pc = "section" =>
            /\ ~have_data => cons.es.length = 0
            /\ ~envelope_done => cons.es.length = 0
            /\ last.op \in {"clear", "init"} => cons.es.length = 0
            /\ Length(cons.es.probe, cons.es.level) = 0 => cons.es.length = 0
            /\ cons.es.length > 0 => cons.es.samples = "alloc")
    /\ [][(~envelope_done /\ envelope_done') =>
             \/ envelope_en
             \/ last'.op = "enable_envelope" /\ last'.arg]_vars
C7_Witness ==
    /\ cons.pc = "section"
    /\ envelope_done
    /\ sample_count >= EnvelopeScaleFactor
    /\ Length(cons.es.probe, cons.es.level) = 0
    /\ cons.es.length = 0
    /\ Length(cons.es.probe, 0) > 0

RECURSIVE SumSeq(_)
SumSeq(s) == IF s = <<>> THEN 0 ELSE Head(s) + SumSeq(Tail(s))

\* C8. Block decomposition: for a non-zero byte length size = sample_count *
\* unit_bytes * channel_num = k * LeafBlockSize + r, get_block_num is k + 1
\* with last block r when r > 0, and k with a full last block when r = 0;
\* every other block is LeafBlockSize; the block sizes sum to size.
C8_BlockDecomposition ==
    LET size == sample_count * UnitBytes * channel_num
        k == size \div LeafBlockSamples
        r == size % LeafBlockSamples
        n == Len(cons.blocks)
    IN  (cons.pc = "blocks" /\ size # 0) =>
            /\ n = IF r = 0 THEN k ELSE k + 1
            /\ \A b \in 1 .. (n - 1) : cons.blocks[b] = LeafBlockSamples
            /\ cons.blocks[n] = IF r = 0 THEN LeafBlockSamples ELSE r
            /\ SumSeq(cons.blocks) = size
C8_Witness ==
    /\ cons.pc = "blocks"
    /\ Len(cons.blocks) >= 2
    /\ cons.blocks[Len(cons.blocks)] < LeafBlockSamples

\* What the lock is said to guard
shared == <<total_sample_count, channel_num, ch_enable, sample_count, data,
            dataSize, capacity, envelope_levels>>

\* C9. Single-lock mutual exclusion: every step of a mutating call that
\* changes total_sample_count, channel_num, ch_enable, sample_count, the raw
\* buffer or the pyramid is taken by the thread holding the lock, and no
\* thread holds the lock while a first_payload has changed the configuration
\* and not yet reallocated the buffers.
C9_SingleLock ==
    /\ [](mutex = "cons" => prod.pc # "fp_alloc")
    /\ [][shared' # shared => mutex = "prod" /\ mutex' = "prod"]_vars

\* C10. No inconsistent state reaches a reader: with the producer running
\* first_payload, append_payload, clear or enable_envelope meanwhile,
\* get_envelope_section never returns length > 0 with a null level array,
\* and cal_vrms reads only bytes of a raw buffer that is allocated.
C10_ReaderConsistent ==
    /\ cons.pc = "section" => (cons.es.length > 0 => cons.es.samples = "alloc")
    /\ cons.pc = "vrms" => cons.valid

\* C11. Allocation failure is recoverable: after a first_payload in which a
\* malloc (raw buffer or level array) failed, size() = 0; and a first_payload
\* with the same parameters that follows it, in which no malloc fails, ends
\* with memory_failed false, the raw buffer allocated and an array allocated
\* for every level of every active channel.
C11_FailureRecoverable ==
    /\ []((last.op = "first_payload" /\ last.fail # "none" /\ ~crashed) =>
              sample_count = 0)
    /\ [][(/\ last.op = "first_payload" /\ last.fail # "none"
           /\ last'.op = "first_payload" /\ last'.fail = "none"
           /\ total_sample_count' = total_sample_count
           /\ ch_enable' = ch_enable
           /\ instant' = instant) =>
              /\ ~memory_failed'
              /\ data' = "alloc"
              /\ \A i \in Channels, l \in Levels :
                     i < channel_num' => envelope_levels'[i][l].samples = "alloc"
          ]_vars

\* C12. Constant-signal RMS: for one channel and N >= 1 stored samples that all
\* have the value v, cal_vrms(zero_off = v) is 0 and cal_vrms(zero_off = 0) is
\* v: the value under the square root is sum((zero_off - x_i)^2) / N, that is
\* (zero_off - v)^2, whether the N samples are one block of VrmsScaleFactor
\* or several.
C12_ConstantSignalRms ==
    (/\ cons.pc = "rms"
     /\ channel_num = 1 /\ sample_count >= 1 /\ Len(buf) = sample_count
     /\ \A j \in 1 .. Len(buf) : buf[j] = buf[1]) =>
        LET d == cons.rms.zero_off - buf[1]
        IN  cons.rms.num = d * d * Pow(sample_count, cons.rms.pow)

\* The members of the object
object == <<data, dataSize, buf, capacity, channel_num, sample_count,
            total_sample_count, ring_sample_count, memory_failed, last_ended,
            have_data, ch_enable, instant, envelope_en, envelope_done,
            envelope_levels>>

\* C13. Clear resets everything: after clear() there is no raw buffer, every
\* level array has been freed (none in the table, none dropped unfreed) and
\* has length 0, sample_count = 0, memory_failed, _envelope_done and
\* _have_data are false and has_data(c) is false for every channel; a second
\* clear() changes nothing.
C13_ClearResets ==
    /\ [](last.op = "clear" =>
            /\ data = "null"
            /\ NoLevelArray /\ ~leaked
            /\ \A i \in Channels, l \in Levels : Length(i, l) = 0
            /\ sample_count = 0
            /\ ~memory_failed /\ ~envelope_done /\ ~have_data
            /\ \A c \in Channels : ~has_data(Cur, c))
    /\ [][(last.op = "clear" /\ last'.op = "clear") => object' = object]_vars

\* C14. Pyramid length invariant: in every state in which envelope generation
\* is enabled and the pyramid is marked done, for every active channel level 0
\* has sample_count / SCALE entries and level L >= 1 has a SCALE-th of the
\* entries of level L - 1.
C14_PyramidLengthInvariant ==
    (envelope_en /\ envelope_done /\ fault = "none") =>
        \A i \in ActiveChannels :
            /\ Length(i, 0) = sample_count \div EnvelopeScaleFactor
            /\ \A l \in Levels \ {0} :
                   Length(i, l) = Length(i, l - 1) \div EnvelopeScaleFactor

\* Entry k of level l of channel i, as the array holds it
EntryAt(i, l, k) ==
    LET vals == envelope_levels[i][l].vals
    IN  IF k < Len(vals) THEN vals[k + 1] ELSE Uninit

\* Entry k of level 0 is the min and max of the samples it covers, as stored now
Level0Right(i, k) ==
    /\ (k + 1) * EnvelopeScaleFactor <= sample_count
    /\ sample_count * channel_num <= Len(buf)
    /\ EntryAt(i, 0, k) = Level0Sample(Cur, i, k)

\* Entry k of level l >= 1 is the fold of the entries of level l - 1 it covers
UpperRight(i, l, k) ==
    /\ (k + 1) * EnvelopeScaleFactor <= Len(envelope_levels[i][l - 1].vals)
    /\ EntryAt(i, l, k) = FoldLower(envelope_levels[i][l - 1].vals, k, 0)

\* C15. Envelope content under incremental extension: after an append with
\* envelope generation enabled and without samplerate_tog, in either mode, for
\* every active channel every entry k < length of level 0 is the min and max
\* of the samples k*SCALE .. (k+1)*SCALE-1 of the channel now in the raw
\* buffer, and every entry k < length of a level L >= 1 is the min of mins and
\* max of maxes of its SCALE entries of level L - 1.
C15_EnvelopeContent ==
    (last.op \in {"first_payload", "append_payload"} /\ last.built = "incr"
        /\ fault = "none") =>
        \A i \in ActiveChannels :
            /\ \A k \in 0 .. (Length(i, 0) - 1) : Level0Right(i, k)
            /\ \A l \in Levels \ {0} :
                   \A k \in 0 .. (Length(i, l) - 1) : UpperRight(i, l, k)

\* The length a pass gives level l when it reaches it
NewLength(l) == sample_count \div Pow(EnvelopeScaleFactor, l + 1)

\* C16. Header rebuild recomputes from offset 0: after a build pass with
\* header = true on sample_count >= SCALE samples, for every active channel
\* every entry k < sample_count / SCALE of level 0 is the min and max of the
\* samples now in the raw buffer, and every entry of every level L >= 1 whose
\* new length is not 0 is the fold of level L - 1: no entry computed from
\* earlier contents survives there.
C16_HeaderRebuild ==
    (last.built = "header" /\ fault = "none"
        /\ sample_count >= EnvelopeScaleFactor) =>
        \A i \in ActiveChannels :
            /\ Length(i, 0) = NewLength(0)
            /\ \A k \in 0 .. (NewLength(0) - 1) : Level0Right(i, k)
            /\ \A l \in Levels \ {0} :
                   NewLength(l) > 0 =>
                       /\ Length(i, l) = NewLength(l)
                       /\ \A k \in 0 .. (NewLength(l) - 1) : UpperRight(i, l, k)
C16_Witness ==
    /\ last.built = "header" /\ fault = "none"
    /\ last.op \in {"first_payload", "append_payload"} /\ last.dso.samplerate_tog
    /\ ~instant
    /\ NewLength(1) > 0
    /\ EntryAt(0, 0, 0) = <<0, 1>>
    /\ EntryAt(0, 1, 0) = <<0, 1>>

\* C17. Pyramid completion flag: every build pass that visits level 0 of
\* every active channel (always so with one channel; with more, when
\* sample_count >= SCALE) ends with _envelope_done true, also when
\* sample_count < SCALE leaves every level at length 0.
C17_CompletionFlag ==
    (last.built # "none" /\ fault = "none"
        /\ (channel_num <= 1 \/ sample_count >= EnvelopeScaleFactor)) =>
        envelope_done

\* C18. Envelope section stays inside valid data: every call
\* get_envelope_section(start, end, min_length, probe_index) with
\* start <= end <= sample_count that returns length > 0 returns a bucket range
\* [start >> scale_power, end >> scale_power) inside [0, length) of the level
\* it selected, with s.start = (start >> scale_power) << scale_power and
\* s.length = (end >> scale_power) - (start >> scale_power).
C18_SectionInsideLevel ==
    (cons.pc = "section" /\ cons.es.length > 0) =>
        LET scale_power == (cons.es.level + 1) * EnvelopeScalePower
            s == Shr(cons.start, scale_power)
            e == Shr(cons.end, scale_power)
        IN  /\ e <= Length(cons.es.probe, cons.es.level)
            /\ cons.es.start = Shl(s, scale_power)
            /\ cons.es.length = e - s

\* C19. Reconfiguration leaks nothing: no call drops a level array without
\* freeing it, and the table holds arrays for the active channels only, so
\* the live allocations are the raw buffer and the level arrays of the
\* channels below _channel_num.
C19_NoLeak ==
    fault = "none" =>
        /\ ~leaked
        /\ \A i \in Channels \ ActiveChannels, l \in Levels :
               envelope_levels[i][l].samples = "null"

\* C20. The ring cursor is never advanced: in every state reached by
\* first_payload, append_payload, enable_envelope, init, clear and
\* capture_ended, _ring_sample_count = 0, so get_ring_start() returns 0 and
\* get_ring_end() returns 0 when sample_count = 0 and total_sample_count - 1
\* otherwise.
C20_RingCursorZero ==
    /\ ring_sample_count = 0
    /\ cons.pc = "ring" =>
           /\ cons.ring_start = 0
           /\ cons.ring_end = IF sample_count = 0 THEN 0
                              ELSE total_sample_count - 1
C20_Witness ==
    /\ cons.pc = "ring"
    /\ sample_count > 0 /\ sample_count >= total_sample_count
    /\ last.op = "append_payload"

\* A thread that is about to take the lock does not hold it, and a thread
\* that is outside every lock_guard does not hold it
NoSelfLock ==
    /\ prod.pc = "lock" => mutex # "prod"
    /\ cons.pc \in {"lock", "vrms_div"} => mutex # "cons"
    /\ prod.pc \in {"idle", "fp_alloc", "fp_tail"} => mutex # "prod"
    /\ cons.pc \in (Returned \cup {"idle"}) => mutex # "cons"

\* C21. Lock discipline is deadlock-free: no call tries to take the lock
\* while its own thread holds it, every call that took the lock releases it,
\* and so every started call of the acquisition thread (first_payload,
\* append_payload, clear, enable_envelope) and of a consumer
\* (get_sample_count, get_ring_start, get_ring_end, get_samples,
\* get_envelope_section, cal_vrms, cal_vmean) returns, unless the process has
\* run into undefined behaviour meanwhile.
C21_DeadlockFree ==
    /\ []NoSelfLock
    /\ (prod.pc # "idle") ~> (prod.pc = "idle" \/ fault # "none")
    /\ (cons.pc \notin (Returned \cup {"idle"})) ~>
           (cons.pc \in (Returned \cup {"idle"}) \/ fault # "none")
C21_Witness ==
    /\ prod.pc = "lock" /\ prod.op = "first_payload"
    /\ mutex = "cons" /\ cons.pc = "gs_body"
    /\ fault = "none"

\* C22. capture_ended lifecycle: a first_payload in which no malloc failed
\* leaves _last_ended false; append_payload and enable_envelope leave it as it
\* was, so it stays false until capture_ended(); capture_ended() sets it and
\* changes no other member; a first_payload in which a malloc failed leaves
\* it as it was.
C22_CaptureEndedLifecycle ==
    [][(cons' = cons /\ fault' = "none") =>
          /\ (last'.op = "first_payload" /\ last'.fail = "none") => ~last_ended'
          /\ (last'.op = "first_payload" /\ last'.fail # "none") =>
                 last_ended' = last_ended
          /\ last'.op \in {"append_payload", "enable_envelope"} =>
                 last_ended' = last_ended
          /\ last'.op = "capture_ended" =>
                 /\ last_ended'
                 /\ UNCHANGED <<data, dataSize, buf, capacity, channel_num,
                                sample_count, total_sample_count,
                                ring_sample_count, memory_failed, have_data,
                                ch_enable, instant, envelope_en, envelope_done,
                                envelope_levels>>
      ]_vars

\* C23. Empty append is a no-op: append_payload with a chunk of 0 samples
\* leaves sample_count, the raw buffer and its contents, the length and the
\* entries of every pyramid level, _envelope_done and _have_data unchanged,
\* also when the chunk carries samplerate_tog and envelope generation is
\* enabled.
C23_EmptyAppendNoOp ==
    [][(last'.op = "append_payload" /\ last'.dso.num_samples = 0) =>
          UNCHANGED <<sample_count, data, dataSize, buf, capacity,
                      envelope_levels, envelope_done, have_data, fault>>
      ]_vars
C23_Witness ==
    /\ last.op = "append_payload" /\ last.dso.num_samples = 0
    /\ last.dso.samplerate_tog /\ envelope_en
    /\ sample_count >= EnvelopeScaleFactor
    /\ Length(0, 0) > 0
    /\ ~instant

\* C24. Setup starts from the first chunk: after a first_payload in which no
\* malloc failed and whose first chunk has m > 0 samples, sample_count is
\* min(m, total_sample_count) in streaming mode and m in replace mode,
\* whatever the store held before and whether the buffers were reused or
\* reallocated.
C24_SetupStartsFromFirstChunk ==
    (/\ last.op = "first_payload" /\ last.fail = "none"
     /\ last.dso.num_samples > 0 /\ fault = "none") =>
        sample_count = IF instant
                       THEN Min2(last.dso.num_samples, total_sample_count)
                       ELSE last.dso.num_samples

\* C25. Statistics read only valid samples: for every sample_count N and
\* every channel, cal_vrms and cal_vmean read only bytes of the N samples
\* stored (none at or past N * _channel_num, none past the raw buffer) and a
\* turn of their loop, which divides by the sample count, is made only when
\* N > 0.
C25_StatisticsReadValid ==
    /\ cons.pc = "rms" =>
           /\ ~cons.rms.past_samples /\ ~cons.rms.past_buffer
           /\ cons.rms.blocks > 0 => cons.rms.n > 0
    /\ cons.pc = "mean" =>
           /\ ~cons.mean.past_samples /\ ~cons.mean.past_buffer
           /\ cons.mean.blocks > 0 => cons.mean.n > 0

============================================================================
